---------------------------- MODULE Spec2Model ----------------------------
(***************************************************************************)
(* Model of the Tamara lead data pipeline: pipeline.py (clean, blacklist,  *)
(* filter, select, export) and enrich_leads.py (digital-presence           *)
(* migration, flags, journey stage, onboarding step flags, deduplication). *)
(*                                                                         *)
(* A data frame is a sequence of rows; a row carries its index label and a *)
(* function from column names to cells.  A cell is NaN, a string, an       *)
(* integer, a float or a timestamp.  A string is a sequence of tokens,     *)
(* each token an atomic run of characters; substring tests, lower-casing   *)
(* and whitespace stripping work on the tokens.                            *)
(***************************************************************************)
EXTENDS Integers, Sequences, FiniteSets, TLC

VARIABLES csv,     \* the input file: [exists, cols, rows]
          pc,      \* position in main()
          cols,    \* df.columns
          df,      \* the working data frame
          warned,  \* missing_cols reported by the column selection
          out,     \* the exported file, NoFile until to_csv ran
          it,      \* position of the iterrows() loop (rows done so far)
          stats    \* the counters main() reports

vars == <<csv, pc, cols, df, warned, out, it, stats>>

-----------------------------------------------------------------------------
(* Cells *)

NaN == [t |-> "nan"]
Str(s) == [t |-> "str", s |-> s]
IntC(n) == [t |-> "int", n |-> n]
FloatC(n) == [t |-> "float", n |-> n]
Ts(n) == [t |-> "ts", n |-> n]
\* a number read_csv inferred from a digit text: its digits without leading
\* zeros, and whether the column is float64
Num(s, f) == [t |-> "num", s |-> s, float |-> f]
NoFile == [exists |-> FALSE]
NoStats ==
    [dropped |-> 0, moved_maps |-> 0, removed_maps |-> 0, moved_social |-> 0,
     moved_ecommerce |-> 0, initial_count |-> 0, dupes_mobile |-> 0,
     dupes_email |-> 0, rows_removed |-> 0]

\* pd.isna / pd.notna (NaT and None are NaN here)
isna(c) == c.t = "nan"
notna(c) == ~isna(c)

\* str(val): the text of a cell
DigitTok(n) == IF n = 0 THEN "0" ELSE IF n = 1 THEN "1" ELSE IF n = 2 THEN "2" ELSE "7"
PyStr(c) ==
    CASE c.t = "str" -> c.s
      [] c.t = "nan" -> <<"nan">>
      [] c.t = "int" -> <<DigitTok(c.n)>>
      [] c.t = "float" -> <<DigitTok(c.n), ".0">>
      [] c.t = "num" -> IF c.float THEN c.s \o <<".0">> ELSE c.s
      [] OTHER -> <<"ts">>

\* str.lower(), token by token
LowerTok(k) ==
    CASE k = "MAPS.GOOGLE" -> "maps.google"
      [] k = "Goo.gl/Maps" -> "goo.gl/maps"
      [] k = "Instagram.com" -> "instagram.com"
      [] k = "X.COM" -> "x.com"
      [] k = "SALLA.SA" -> "salla.sa"
      [] k = "NAN" -> "nan"
      [] k = "NaN" -> "nan"
      [] k = "Info" -> "info"
      [] k = "V2" -> "v2"
      [] k = "FINAL" -> "final"
      [] k = "STEP" -> "step"
      [] k = "KYC" -> "kyc"
      [] OTHER -> k
Lower(s) == [i \in 1..Len(s) |-> LowerTok(s[i])]

\* str.strip(): leading and trailing whitespace tokens removed
IsSpace(k) == k = " "
RECURSIVE LStrip(_)
LStrip(s) == IF s # <<>> /\ IsSpace(Head(s)) THEN LStrip(Tail(s)) ELSE s
RECURSIVE RStrip(_)
RStrip(s) == IF s # <<>> /\ IsSpace(s[Len(s)]) THEN RStrip(SubSeq(s, 1, Len(s) - 1)) ELSE s
Strip(s) == RStrip(LStrip(s))

\* `tok in s`
Contains(s, tok) == \E i \in 1..Len(s) : s[i] = tok

\* df[c] = value, per row
WithCol(r, c, val) ==
    [r EXCEPT !.v = [k \in (DOMAIN r.v) \cup {c} |-> IF k = c THEN val ELSE r.v[k]]]


-----------------------------------------------------------------------------
(* pipeline.py: configuration *)

\* Timestamps count minutes from 2024-01-01 00:00.
Day(d) == d * 1440
BLACKLIST_START_DATE == Day(152)   \* pd.Timestamp('2024-06-01')

\* the date texts pd.to_datetime can parse; any other text is coerced to NaT
DateTable ==
    ("2024-05-31" :> Day(151)) @@
    ("2024-05-31 23:59" :> Day(152) - 1) @@
    ("2024-06-01" :> Day(152)) @@
    ("2024-06-01 00:01" :> Day(152) + 1) @@
    ("2024-07-15" :> Day(196))

COLUMN_MAPPING ==
    ("Legal Entity Name" :> "company_name") @@
    ("Company / Account" :> "company_account_fallback") @@
    ("Business Name (Arabic)" :> "company_name_ar") @@
    ("CR Number - Unified National Number" :> "cr_number") @@
    ("Lead ID" :> "lead_id") @@
    ("First Name" :> "first_name") @@
    ("Last Name" :> "last_name") @@
    ("Email" :> "email") @@
    ("Mobile" :> "mobile") @@
    ("Preferred Language" :> "preferred_language") @@
    ("Website" :> "website") @@
    ("Google Map" :> "google_map_id") @@
    ("Reported Annual Sales" :> "reported_annual_sales_tier") @@
    ("Business Type" :> "business_type") @@
    ("Category" :> "category") @@
    ("Subcategory" :> "subcategory") @@
    ("L1" :> "L1") @@ ("L2" :> "L2") @@ ("L3" :> "L3") @@
    ("Business Activities (EN)" :> "business_activities_en") @@
    ("Country of Registration" :> "country_of_registration") @@
    ("CR Issue Date" :> "cr_issue_date") @@
    ("CR Expiry Date" :> "cr_expiry_date") @@
    ("VAT Number" :> "vat_number") @@
    ("IBAN" :> "iban") @@
    ("National ID Expiry Date" :> "national_id_expiry_date") @@
    ("Lead Status" :> "lead_status") @@
    ("Complete Application Contacted Status" :> "contacted_status") @@
    ("Onboarding Step" :> "onboarding_step") @@
    ("Created Date" :> "created_date") @@
    ("Timestamp \"KYB in Progress\"" :> "kyb_in_progress_date") @@
    ("Timestamp \"KYB Submitted\"" :> "kyb_submitted_date") @@
    ("Lead Last Status Change DateTime" :> "last_status_change_date") @@
    ("Converted Date" :> "converted_date") @@
    ("Lead Source" :> "lead_source") @@
    ("Lead Created UTM Source" :> "utm_source") @@
    ("Lead Created UTM Medium" :> "utm_medium") @@
    ("Lead Created UTM Campaign" :> "utm_campaign") @@
    ("Internal Blacklisting Passed" :> "blacklist_raw")

SELECTED_COLUMNS ==
    << "company_name", "company_name_ar", "cr_number", "lead_id",
       "email", "mobile", "preferred_language",
       "website", "google_map_id",
       "reported_annual_sales_tier", "business_type", "L1", "L2", "L3",
       "business_activities_en", "country_of_registration",
       "cr_issue_date", "cr_expiry_date", "vat_number", "iban",
       "national_id_expiry_date",
       "lead_status", "contacted_status", "onboarding_step", "created_date",
       "kyb_in_progress_date", "kyb_submitted_date", "last_status_change_date",
       "converted_date",
       "lead_source", "utm_source", "utm_medium", "utm_campaign" >>

Range(s) == {s[i] : i \in 1..Len(s)}

\* df.rename(columns=COLUMN_MAPPING): an unmapped column keeps its name
RenameCol(c) == IF c \in DOMAIN COLUMN_MAPPING THEN COLUMN_MAPPING[c] ELSE c
RenameRow(r, old) ==
    [r EXCEPT !.v = [k \in {RenameCol(c) : c \in old} |->
                        r.v[CHOOSE c \in old : RenameCol(c) = k]]]

\* pd.to_datetime(x, errors='coerce')
to_datetime(c) ==
    CASE c.t = "ts" -> c
      [] c.t = "str" /\ Len(c.s) = 1 /\ c.s[1] \in DOMAIN DateTable -> Ts(DateTable[c.s[1]])
      [] OTHER -> NaN

date_cols ==
    { "cr_issue_date", "cr_expiry_date", "national_id_expiry_date",
      "created_date", "kyb_in_progress_date", "kyb_submitted_date",
      "last_status_change_date", "converted_date" }

clean_dates_row(r, present) ==
    [r EXCEPT !.v = [k \in DOMAIN r.v |->
                        IF k \in date_cols \cap present THEN to_datetime(r.v[k]) ELSE r.v[k]]]

-----------------------------------------------------------------------------
(* pipeline.py: processing functions *)

\* parse_raw_blacklist: 1/green -> Passed (1), 0/red -> Failed (0), else None
parse_raw_blacklist(val) ==
    IF isna(val) THEN NaN
    ELSE LET s_val == PyStr(val) IN
         IF Contains(s_val, "green.png") \/ s_val = <<"1">> THEN IntC(1)
         ELSE IF Contains(s_val, "red.png") \/ s_val = <<"0">> THEN IntC(0)
         ELSE NaN

\* comparisons of a datetime column with a Timestamp: NaT compares False
DateLt(c, n) == c.t = "ts" /\ c.n < n
DateGe(c, n) == c.t = "ts" /\ c.n >= n

\* blacklist_status with the cutoff day itself counted as pre-cutoff
blacklist_status_inclusive(created, parsed) ==
    IF ~DateGe(created, BLACKLIST_START_DATE + 1) /\ created.t = "ts" THEN IntC(1)
    ELSE IF DateGe(created, BLACKLIST_START_DATE) /\ parsed = IntC(1) THEN IntC(1)
    ELSE IntC(0)

\* the value apply_blacklist_logic gives blacklist_status, from the parsed
\* created_date and the parsed check result
blacklist_status(created, parsed) ==
    LET cond_pre_cutoff == DateLt(created, BLACKLIST_START_DATE)
        cond_post_cutoff_pass == DateGe(created, BLACKLIST_START_DATE) /\ parsed = IntC(1)
    IN  IF cond_pre_cutoff \/ cond_post_cutoff_pass THEN IntC(1) ELSE IntC(0)

apply_blacklist_row(r) ==
    LET created == to_datetime(r.v["created_date"])
        parsed == parse_raw_blacklist(r.v["blacklist_raw"])
        r1 == WithCol(r, "created_date", created)
        r2 == WithCol(r1, "blacklist_parsed", parsed)
    IN  WithCol(r2, "blacklist_status", blacklist_status(created, parsed))

fillna(c, d) == IF isna(c) THEN d ELSE c

process_identity_row(r) ==
    LET r1 == WithCol(r, "company_name",
                      fillna(r.v["company_name"], r.v["company_account_fallback"]))
        first == fillna(r.v["first_name"], Str(<<>>))
        last == fillna(r.v["last_name"], Str(<<>>))
    IN  WithCol(r1, "contact_name", Str(Strip(first.s \o <<" ">> \o last.s)))

\* .str.split('@').str[1]: the text between the first and the second '@'
RECURSIVE UpToAt(_)
UpToAt(s) == IF s = <<>> \/ Head(s) = "@" THEN <<>> ELSE <<Head(s)>> \o UpToAt(Tail(s))
RECURSIVE AfterAt(_)
AfterAt(s) == IF Head(s) = "@" THEN Tail(s) ELSE AfterAt(Tail(s))
email_domain(c) ==
    IF isna(c) \/ ~Contains(c.s, "@") THEN NaN ELSE Str(UpToAt(AfterAt(c.s)))

\* astype(str).str.replace(r'[+\s-]', ''), then 'nan' and '' become NaN
normalize_mobile(c) ==
    LET digits == SelectSeq(PyStr(c), LAMBDA k : k \notin {"+", " ", "-"})
    IN  IF digits = <<"nan">> \/ digits = <<>> THEN NaN ELSE Str(digits)

process_digital_contact_row(r) ==
    LET email == IF isna(r.v["email"]) THEN NaN ELSE Str(Strip(Lower(r.v["email"].s)))
        r1 == WithCol(r, "email", email)
        r2 == WithCol(r1, "email_domain", email_domain(email))
    IN  WithCol(r2, "mobile", normalize_mobile(r.v["mobile"]))

sales_map ==
    ("Nano Business (Less than $250 thousand)" :> 1) @@
    ("Micro Business ($250 thousand to $1 million)" :> 2) @@
    ("Small Business ($1 million to $5 million)" :> 3) @@
    ("Medium Business ($5 million to $50 million)" :> 4) @@
    ("Large Business ($50 million+)" :> 5)

sales_tier(c) ==
    IF c.t = "str" /\ Len(c.s) = 1 /\ c.s[1] \in DOMAIN sales_map
    THEN IntC(sales_map[c.s[1]]) ELSE IntC(0)

process_business_tiers_row(r) ==
    WithCol(r, "reported_annual_sales_tier", sales_tier(r.v["reported_annual_sales_tier"]))

-----------------------------------------------------------------------------
(* pipeline.py: main() *)

\* pd.read_csv: a missing file ends the run, else one row per record
P_Load ==
    /\ pc = "p_load"
    /\ IF csv.exists
       THEN /\ pc' = "p_rename"
            /\ cols' = csv.cols
            /\ df' = [i \in 1..Len(csv.rows) |-> [idx |-> i - 1, v |-> csv.rows[i]]]
       ELSE /\ pc' = "p_not_found"
            /\ UNCHANGED <<cols, df>>
    /\ UNCHANGED <<csv, warned, out, it, stats>>

P_Rename ==
    /\ pc = "p_rename"
    /\ cols' = {RenameCol(c) : c \in cols}
    /\ df' = [i \in 1..Len(df) |-> RenameRow(df[i], cols)]
    /\ pc' = "p_clean_dates"
    /\ UNCHANGED <<csv, warned, out, it, stats>>

clean_dates ==
    /\ pc = "p_clean_dates"
    /\ df' = [i \in 1..Len(df) |-> clean_dates_row(df[i], cols)]
    /\ pc' = "p_blacklist"
    /\ UNCHANGED <<csv, cols, warned, out, it, stats>>

\* df['created_date'] and df['blacklist_raw'] raise KeyError when absent
apply_blacklist_logic ==
    /\ pc = "p_blacklist"
    /\ IF {"created_date", "blacklist_raw"} \subseteq cols
       THEN /\ df' = [i \in 1..Len(df) |-> apply_blacklist_row(df[i])]
            /\ cols' = cols \cup {"blacklist_status", "blacklist_parsed"}
            /\ pc' = "p_identity"
       ELSE /\ pc' = "p_KeyError"
            /\ UNCHANGED <<df, cols>>
    /\ UNCHANGED <<csv, warned, out, it, stats>>

process_identity ==
    /\ pc = "p_identity"
    /\ IF {"company_name", "company_account_fallback", "first_name", "last_name"} \subseteq cols
       THEN /\ df' = [i \in 1..Len(df) |-> process_identity_row(df[i])]
            /\ cols' = cols \cup {"contact_name"}
            /\ pc' = "p_contact"
       ELSE /\ pc' = "p_KeyError"
            /\ UNCHANGED <<df, cols>>
    /\ UNCHANGED <<csv, warned, out, it, stats>>

\* a column read with every cell empty is float64, and .str raises on it
AllNaN(frame, c) == frame # <<>> /\ \A i \in 1..Len(frame) : isna(frame[i].v[c])

process_digital_contact ==
    /\ pc = "p_contact"
    /\ IF "email" \notin cols
       THEN pc' = "p_KeyError" /\ UNCHANGED <<df, cols>>
       ELSE IF AllNaN(df, "email")
       THEN pc' = "p_AttributeError" /\ UNCHANGED <<df, cols>>
       ELSE IF "mobile" \notin cols
       THEN pc' = "p_KeyError" /\ UNCHANGED <<df, cols>>
       ELSE /\ df' = [i \in 1..Len(df) |-> process_digital_contact_row(df[i])]
            /\ cols' = cols \cup {"email_domain"}
            /\ pc' = "p_tiers"
    /\ UNCHANGED <<csv, warned, out, it, stats>>

process_business_tiers ==
    /\ pc = "p_tiers"
    /\ IF "reported_annual_sales_tier" \in cols
       THEN /\ df' = [i \in 1..Len(df) |-> process_business_tiers_row(df[i])]
            /\ pc' = "p_filter"
       ELSE /\ pc' = "p_KeyError"
            /\ UNCHANGED df
    /\ UNCHANGED <<csv, cols, warned, out, it, stats>>

\* the row filter left out: every row is kept
P_FilterRows_keepall ==
    /\ pc = "p_filter"
    /\ stats' = [stats EXCEPT !.dropped = 0]
    /\ pc' = "p_select"
    /\ UNCHANGED <<csv, cols, df, warned, out, it>>

\* 3. Filtering Rows: keep if blacklist_status == 1
P_FilterRows ==
    /\ pc = "p_filter"
    /\ df' = SelectSeq(df, LAMBDA r : r.v["blacklist_status"] = IntC(1))
    /\ stats' = [stats EXCEPT !.dropped = Len(df) - Len(df')]
    /\ pc' = "p_select"
    /\ UNCHANGED <<csv, cols, warned, out, it>>

\* 4. Selecting Columns: a missing selected column is reported and filled
\* with NaN, then the frame is cut to SELECTED_COLUMNS
P_SelectColumns ==
    /\ pc = "p_select"
    /\ warned' = SelectSeq(SELECTED_COLUMNS, LAMBDA c : c \notin cols)
    /\ df' = [i \in 1..Len(df) |->
                [df[i] EXCEPT !.v = [k \in Range(SELECTED_COLUMNS) |->
                                        IF k \in cols THEN df[i].v[k] ELSE NaN]]]
    /\ cols' = Range(SELECTED_COLUMNS)
    /\ pc' = "p_export"
    /\ UNCHANGED <<csv, out, it, stats>>

\* 5. Export: to_csv(index=False)
P_Export ==
    /\ pc = "p_export"
    /\ out' = [exists |-> TRUE, cols |-> SELECTED_COLUMNS,
               rows |-> [i \in 1..Len(df) |-> df[i].v]]
    /\ pc' = "p_done"
    /\ UNCHANGED <<csv, cols, df, warned, it, stats>>

PipelineNext ==
    \/ P_Load \/ P_Rename \/ clean_dates \/ apply_blacklist_logic
    \/ process_identity \/ process_digital_contact \/ process_business_tiers
    \/ P_FilterRows \/ P_SelectColumns \/ P_Export

-----------------------------------------------------------------------------
(* pipeline.py: the input files of the model *)

MaxLeads == 1    \* rows of an input file whose blacklist cells vary freely

\* the source columns main() reads by name after the rename
CriticalSource ==
    { "Created Date", "Internal Blacklisting Passed", "Legal Entity Name",
      "Company / Account", "First Name", "Last Name", "Email", "Mobile",
      "Reported Annual Sales" }
\* the columns an input file of the model can have; "Owner" is unmapped
ModelledSource == CriticalSource \cup {"Website", "Converted Date", "Owner"}

BaseCells ==
    ("Created Date" :> Str(<<"2024-05-31">>)) @@
    ("Internal Blacklisting Passed" :> Str(<<"1">>)) @@
    ("Legal Entity Name" :> Str(<<"Acme">>)) @@
    ("Company / Account" :> Str(<<"Acme Account">>)) @@
    ("First Name" :> Str(<<"Ann">>)) @@
    ("Last Name" :> Str(<<"Lee">>)) @@
    ("Email" :> Str(<<"Info", "@", "shop.example">>)) @@
    ("Mobile" :> Str(<<"+", "9665", " ", "0000">>)) @@
    ("Reported Annual Sales" :> Str(<<"Large Business ($50 million+)">>)) @@
    ("Website" :> Str(<<"https://", "shop.example">>)) @@
    ("Converted Date" :> NaN) @@
    ("Owner" :> Str(<<"Ann">>))

\* a row of a file with the columns present, the cells of over replacing BaseCells
SourceRow(present, over) ==
    [c \in present |-> IF c \in DOMAIN over THEN over[c] ELSE BaseCells[c]]

CreatedInputs ==
    { NaN, Str(<<"not a date">>), Str(<<"2024-05-31">>), Str(<<"2024-05-31 23:59">>),
      Str(<<"2024-06-01">>), Str(<<"2024-06-01 00:01">>), Str(<<"2024-07-15">>) }

\* read_csv gives a column of texts, of integers, or of floats
RawTextInputs ==
    { NaN, Str(<<"1">>), Str(<<"0">>), Str(<<"<img src=", "green.png", ">">>),
      Str(<<"<img src=", "red.png", ">">>), Str(<<"pending">>), Str(<<" ", "1">>) }
RawIntInputs == { IntC(0), IntC(1) }
RawFloatInputs == { NaN, FloatC(0), FloatC(1) }
RawColumns == { RawTextInputs, RawIntInputs, RawFloatInputs }

BlacklistRows(raws) ==
    { SourceRow(ModelledSource,
                ("Created Date" :> c) @@ ("Internal Blacklisting Passed" :> b)) :
        c \in CreatedInputs, b \in raws }

ContactRows ==
    { SourceRow(ModelledSource,
                ("Legal Entity Name" :> cn) @@ ("Company / Account" :> fb) @@
                ("First Name" :> fn) @@ ("Last Name" :> ln) @@ ("Email" :> em) @@
                ("Mobile" :> mo) @@ ("Reported Annual Sales" :> sa)) :
        cn \in {NaN, Str(<<"Acme">>)},
        fb \in {NaN, Str(<<"Acme Account">>)},
        fn \in {NaN, Str(<<" ", "Ann">>)},
        ln \in {NaN, Str(<<"Lee">>)},
        em \in {NaN, Str(<<" ", "Info", "@", "shop.example">>), Str(<<"info">>)},
        mo \in {NaN, Str(<<"+", "9665", " ", "0000">>), Str(<<"nan">>), Str(<<"-">>)},
        sa \in {NaN, Str(<<"Large Business ($50 million+)">>), Str(<<"Huge">>)} }

\* any of the columns main() reads by name is absent
FilesLackingColumns ==
    { [exists |-> TRUE, cols |-> ModelledSource \ absent,
       rows |-> << SourceRow(ModelledSource \ absent,
                             ("Created Date" :> c) @@ ("Owner" :> Str(<<"Ann">>))) >>] :
        absent \in SUBSET CriticalSource,
        c \in {Str(<<"2024-05-31">>), Str(<<"2024-07-15">>)} }

PipelineInput ==
    \/ csv = NoFile
    \/ csv \in FilesLackingColumns
    \* every column present, the blacklist cells vary
    \/ \E raws \in RawColumns : \E k \in 1..MaxLeads :
          \E rs \in [1..k -> BlacklistRows(raws)] :
             csv = [exists |-> TRUE, cols |-> ModelledSource, rows |-> rs]
    \* every column present, the identity and contact cells vary
    \/ \E r \in ContactRows :
          csv = [exists |-> TRUE, cols |-> ModelledSource, rows |-> <<r>>]

Init ==
    /\ PipelineInput
    /\ pc = "p_load"
    /\ cols = {}
    /\ df = <<>>
    /\ warned = <<>>
    /\ out = NoFile
    /\ it = 0
    /\ stats = NoStats

Next == PipelineNext

Spec == Init /\ [][Next]_vars

-----------------------------------------------------------------------------
(* enrich_leads.py: URL classification *)

maps_indicators == {"maps.google", "goo.gl/maps", "google.com/maps", "maps.app.goo.gl"}
social_domains ==
    { "instagram.com", "snapchat.com", "youtube.com", "facebook.com",
      "twitter.com", "x.com", "linkedin.com", "tiktok.com", "pinterest.com" }
ecommerce_domains == {"salla.sa"}

\* pd.isna(url) or str(url).strip() == ''
IsBlank(url) == isna(url) \/ Strip(PyStr(url)) = <<>>

\* any(ind in url_lower for ind in indicators)
AnyIn(indicators, url) == \E ind \in indicators : Contains(Lower(PyStr(url)), ind)

is_google_maps_url(url) == IF IsBlank(url) THEN FALSE ELSE AnyIn(maps_indicators, url)
is_social_media_url(url) == IF IsBlank(url) THEN FALSE ELSE AnyIn(social_domains, url)
is_ecommerce_url(url) == IF IsBlank(url) THEN FALSE ELSE AnyIn(ecommerce_domains, url)

\* "truly empty": NaN, or an empty string, or the string 'nan'
IsEmptyCell(c) == isna(c) \/ Strip(PyStr(c)) = <<>> \/ Lower(PyStr(c)) = <<"nan">>

website_col == "website"
map_col == "google_map_id"
social_col == "social_media_links"
ecommerce_col == "e-commerce link"

-----------------------------------------------------------------------------
(* enrich_leads.py: the body of the iterrows() loop, on one row *)

\* 1. a Google Maps link in website: moved when the map column is empty,
\* removed from website either way
MigrateMaps(r) ==
    LET site == r.v[website_col]
        r1 == IF IsEmptyCell(r.v[map_col]) THEN WithCol(r, map_col, site) ELSE r
    IN  WithCol(r1, website_col, NaN)

\* 2. a social media link in website: set or appended with ' | '
MigrateSocial(r, site) ==
    LET current_social == r.v[social_col]
        r1 == IF IsEmptyCell(current_social)
              THEN WithCol(r, social_col, site)
              ELSE WithCol(r, social_col,
                           Str(PyStr(current_social) \o <<" | ">> \o PyStr(site)))
    IN  WithCol(r1, website_col, NaN)

\* MigrateEcommerce without the removal from website
MigrateEcommerce_keep(r, site) ==
    LET current_ecom == r.v[ecommerce_col] IN
    IF IsEmptyCell(current_ecom) THEN WithCol(r, ecommerce_col, site)
    ELSE WithCol(r, ecommerce_col, Str(PyStr(current_ecom) \o <<" | ">> \o PyStr(site)))

\* 3. an e-commerce link in website: set or appended with ' | '
MigrateEcommerce(r, site) ==
    LET current_ecom == r.v[ecommerce_col]
        r1 == IF IsEmptyCell(current_ecom)
              THEN WithCol(r, ecommerce_col, site)
              ELSE WithCol(r, ecommerce_col,
                           Str(PyStr(current_ecom) \o <<" | ">> \o PyStr(site)))
    IN  WithCol(r1, website_col, NaN)

\* MigrateRow without the `continue` that ends the maps branch
MigrateRow_fallthrough(r) ==
    LET site == r.v[website_col]
        r1 == IF is_google_maps_url(site) THEN MigrateMaps(r) ELSE r
        r2 == IF is_social_media_url(site) THEN MigrateSocial(r1, site) ELSE r1
    IN  IF is_ecommerce_url(site) THEN MigrateEcommerce(r2, site) ELSE r2

\* the three checks in order; the maps branch ends with `continue`, the
\* social and the e-commerce checks are two independent ifs on the same site
MigrateRow(r) ==
    LET site == r.v[website_col] IN
    IF is_google_maps_url(site) THEN MigrateMaps(r)
    ELSE LET r2 == IF is_social_media_url(site) THEN MigrateSocial(r, site) ELSE r
         IN  IF is_ecommerce_url(site) THEN MigrateEcommerce(r2, site) ELSE r2

\* the counters the loop keeps for one row
MigrateCounts(st, r) ==
    LET site == r.v[website_col] IN
    IF is_google_maps_url(site)
    THEN [st EXCEPT !.moved_maps = @ + (IF IsEmptyCell(r.v[map_col]) THEN 1 ELSE 0),
                    !.removed_maps = @ + 1]
    ELSE [st EXCEPT !.moved_social = @ + (IF is_social_media_url(site) THEN 1 ELSE 0),
                    !.moved_ecommerce = @ + (IF is_ecommerce_url(site) THEN 1 ELSE 0)]

\* create_flag(series): notna and not blank and not the text 'nan'
create_flag(c) ==
    IF notna(c) /\ Strip(PyStr(c)) # <<>> /\ Lower(PyStr(c)) # <<"nan">>
    THEN IntC(1) ELSE IntC(0)

-----------------------------------------------------------------------------
(* enrich_leads.py: journey tracking *)

\* A step code is a sequence of word tokens and "_" tokens.
IsVersionTok(k) == k \in {"v2", "v3"}

\* re.sub(r'v\d+_', '', val): a version word and the underscore after it go
RECURSIVE DropVersions(_)
DropVersions(s) ==
    IF s = <<>> THEN <<>>
    ELSE IF Len(s) >= 2 /\ IsVersionTok(s[1]) /\ s[2] = "_" THEN DropVersions(Tail(Tail(s)))
    ELSE <<Head(s)>> \o DropVersions(Tail(s))

\* val.replace('_step', '')
RECURSIVE DropStep(_)
DropStep(s) ==
    IF s = <<>> THEN <<>>
    ELSE IF Len(s) >= 2 /\ s[1] = "_" /\ s[2] = "step" THEN DropStep(Tail(Tail(s)))
    ELSE <<Head(s)>> \o DropStep(Tail(s))

\* val.replace('_', ' ')
Spaced(s) == [i \in 1..Len(s) |-> IF s[i] = "_" THEN " " ELSE s[i]]

\* str.title(), word by word
TitleTok(k) ==
    CASE k = "otp" -> "Otp" [] k = "sign" -> "Sign" [] k = "up" -> "Up"
      [] k = "confirmation" -> "Confirmation" [] k = "business" -> "Business"
      [] k = "info" -> "Info" [] k = "personal" -> "Personal"
      [] k = "details" -> "Details" [] k = "kyc" -> "Kyc" [] k = "bank" -> "Bank"
      [] k = "review" -> "Review" [] k = "application" -> "Application"
      [] k = "contract" -> "Contract" [] k = "final" -> "Final"
      [] k = "step" -> "Step" [] k = "v2" -> "V2" [] k = "v3" -> "V3"
      [] k = "nan" -> "Nan"
      [] OTHER -> k
Title(s) == [i \in 1..Len(s) |-> TitleTok(s[i])]

UpperTok(k) == CASE k = "v2" -> "V2" [] k = "v3" -> "V3" [] OTHER -> k

clean_step_name(val) ==
    IF isna(val) \/ val = Str(<<>>) THEN NaN
    ELSE Str(Title(Spaced(DropStep(DropVersions(Lower(PyStr(val)))))))

\* re.search(r'(v\d+)', val_str): the first version word, upper-cased
extract_version(val) ==
    IF isna(val) \/ val = Str(<<>>) THEN Str(<<"Unknown">>)
    ELSE LET val_str == Lower(PyStr(val))
             hits == {i \in 1..Len(val_str) : IsVersionTok(val_str[i])}
         IN  IF hits = {} THEN Str(<<"Unknown">>)
             ELSE Str(<<UpperTok(val_str[CHOOSE i \in hits : \A j \in hits : i <= j])>>)

\* `col in row and pd.notna(row[col])`, for a row of a frame with columns present
Has(r, present, c) == c \in present /\ notna(r.v[c])

\* get_journey_stage with the KYB Submitted check ahead of the Converted check
get_journey_stage_swapped(r, present) ==
    IF Has(r, present, "kyb_submitted_date") THEN Str(<<"KYB Submitted">>)
    ELSE IF Has(r, present, "converted_date") THEN Str(<<"Converted">>)
    ELSE IF Has(r, present, "kyb_in_progress_date") THEN Str(<<"KYB In Progress">>)
    ELSE LET step == r.v["readable_onboarding_step"] IN
         IF notna(step)
         THEN IF Contains(PyStr(step), "Final") THEN Str(<<"Onboarding Completed">>)
              ELSE Str(<<"Onboarding: ">> \o PyStr(step))
         ELSE IF Has(r, present, "created_date") THEN Str(<<"Registered">>)
         ELSE Str(<<"Unknown">>)

get_journey_stage(r, present) ==
    IF Has(r, present, "converted_date") THEN Str(<<"Converted">>)
    ELSE IF Has(r, present, "kyb_submitted_date") THEN Str(<<"KYB Submitted">>)
    ELSE IF Has(r, present, "kyb_in_progress_date") THEN Str(<<"KYB In Progress">>)
    ELSE LET step == r.v["readable_onboarding_step"] IN
         IF notna(step)
         THEN IF Contains(PyStr(step), "Final") THEN Str(<<"Onboarding Completed">>)
              ELSE Str(<<"Onboarding: ">> \o PyStr(step))
         ELSE IF Has(r, present, "created_date") THEN Str(<<"Registered">>)
         ELSE Str(<<"Unknown">>)

\* the step literals, as token sequences
otp_sign_up_confirmation_step == <<"otp", "_", "sign", "_", "up", "_", "confirmation", "_", "step">>
business_info_step == <<"business", "_", "info", "_", "step">>
v2_personal_details_step == <<"v2", "_", "personal", "_", "details", "_", "step">>
v2_business_details_step == <<"v2", "_", "business", "_", "details", "_", "step">>
kyc_step == <<"kyc", "_", "step">>
v2_bank_details_step == <<"v2", "_", "bank", "_", "details", "_", "step">>
review_application_step == <<"review", "_", "application", "_", "step">>
v3_sign_contract_step == <<"v3", "_", "sign", "_", "contract", "_", "step">>
v2_final_step == <<"v2", "_", "final", "_", "step">>
v3_final_step == <<"v3", "_", "final", "_", "step">>

\* column name -> matching step values
step_config ==
    ("otp_sign_up_confirmation_step" :> {otp_sign_up_confirmation_step}) @@
    ("business_info_step" :> {business_info_step}) @@
    ("v2_personal_details_step" :> {v2_personal_details_step}) @@
    ("v2_business_details_step" :> {v2_business_details_step}) @@
    ("kyc_step" :> {kyc_step}) @@
    ("v2_bank_details_step" :> {v2_bank_details_step}) @@
    ("review_application_step" :> {review_application_step}) @@
    ("v3_sign_contract_step" :> {v3_sign_contract_step}) @@
    ("final_step" :> {v2_final_step, v3_final_step})

\* check_step matching without regard to case
check_step_anycase(val, valid_steps) ==
    IF isna(val) THEN IntC(0)
    ELSE IF Lower(Strip(PyStr(val))) \in valid_steps THEN IntC(1) ELSE IntC(0)

check_step(val, valid_steps) ==
    IF isna(val) THEN IntC(0)
    ELSE IF Strip(PyStr(val)) \in valid_steps THEN IntC(1) ELSE IntC(0)

\* every column of step_config set on one row
StepFlagsRow(r) ==
    [r EXCEPT !.v = [k \in (DOMAIN r.v) \cup (DOMAIN step_config) |->
                        IF k \in DOMAIN step_config
                        THEN check_step(r.v["onboarding_step"], step_config[k])
                        ELSE r.v[k]]]

-----------------------------------------------------------------------------
(* enrich_leads.py: duplicate removal *)

\* duplicated with keep=False: every row whose value occurs twice is marked
duplicated_keep_false(frame, c, seen) ==
    [i \in 1..Len(frame) |->
        \/ frame[i].v[c] \in seen
        \/ \E j \in 1..Len(frame) : j # i /\ frame[j].v[c] = frame[i].v[c]]

\* df.duplicated(subset=[c], keep='first'): a row is marked when its value
\* was seen in an earlier row; NaN counts as a value
RECURSIVE duplicated(_, _, _)
duplicated(frame, c, seen) ==
    IF frame = <<>> THEN <<>>
    ELSE <<Head(frame).v[c] \in seen>>
         \o duplicated(Tail(frame), c, seen \cup {Head(frame).v[c]})

\* the mask without `& df[c].notna()`, as drop_duplicates would take it
DuplicateMask_plain(frame, c) == duplicated(frame, c, {})

\* duplicated(...) & df[c].notna()
DuplicateMask(frame, c) ==
    LET dup == duplicated(frame, c, {})
    IN  [i \in 1..Len(frame) |-> dup[i] /\ notna(frame[i].v[c])]

\* df[~mask] with the mask one row out of line
RECURSIVE DropMasked_shifted(_, _)
DropMasked_shifted(frame, mask) ==
    IF frame = <<>> THEN <<>>
    ELSE (IF Len(mask) >= 2 /\ mask[2] THEN <<>> ELSE <<Head(frame)>>)
         \o DropMasked_shifted(Tail(frame), Tail(mask))

\* df[~mask]
RECURSIVE DropMasked(_, _)
DropMasked(frame, mask) ==
    IF frame = <<>> THEN <<>>
    ELSE (IF Head(mask) THEN <<>> ELSE <<Head(frame)>>)
         \o DropMasked(Tail(frame), Tail(mask))

-----------------------------------------------------------------------------
(* enrich_leads.py: main() *)

E_Load ==
    /\ pc = "e_load"
    /\ IF csv.exists
       THEN /\ pc' = "e_ensure"
            /\ cols' = csv.cols
            /\ df' = [i \in 1..Len(csv.rows) |-> [idx |-> i - 1, v |-> csv.rows[i]]]
       ELSE /\ pc' = "e_not_found"
            /\ UNCHANGED <<cols, df>>
    /\ UNCHANGED <<csv, warned, out, it, stats>>

\* Ensure columns exist
E_EnsureColumns ==
    /\ pc = "e_ensure"
    /\ LET working == {website_col, map_col, social_col, ecommerce_col} IN
       /\ cols' = cols \cup working
       /\ df' = [i \in 1..Len(df) |->
                   [df[i] EXCEPT !.v = [k \in cols \cup working |->
                                           IF k \in cols THEN df[i].v[k] ELSE NaN]]]
    /\ pc' = "e_migrate"
    /\ UNCHANGED <<csv, warned, out, it, stats>>

\* one turn of `for idx, row in df.iterrows()`
E_MigrateRow ==
    /\ pc = "e_migrate"
    /\ it < Len(df)
    /\ df' = [df EXCEPT ![it + 1] = MigrateRow(df[it + 1])]
    /\ stats' = MigrateCounts(stats, df[it + 1])
    /\ it' = it + 1
    /\ UNCHANGED <<csv, pc, cols, warned, out>>

\* Add Flags
E_AddFlags ==
    /\ pc = "e_migrate"
    /\ it = Len(df)
    /\ df' = [i \in 1..Len(df) |->
                LET r == df[i]
                    r1 == WithCol(r, "is_converted",
                                  IF "converted_date" \in cols /\ notna(r.v["converted_date"])
                                  THEN IntC(1) ELSE IntC(0))
                    r2 == WithCol(r1, "has_website", create_flag(r.v[website_col]))
                    r3 == WithCol(r2, "has_maps", create_flag(r.v[map_col]))
                    r4 == WithCol(r3, "has_social_media", create_flag(r.v[social_col]))
                IN  WithCol(r4, "has_ecommerce", create_flag(r.v[ecommerce_col]))]
    /\ cols' = cols \cup {"is_converted", "has_website", "has_maps", "has_social_media",
                           "has_ecommerce"}
    /\ pc' = "e_dates"
    /\ UNCHANGED <<csv, warned, out, it, stats>>

enrich_date_cols ==
    { "created_date", "kyb_in_progress_date", "kyb_submitted_date",
      "last_status_change_date", "converted_date" }

\* the date columns parsed, then the step name and version columns
E_ParseJourney ==
    /\ pc = "e_dates"
    /\ df' = [i \in 1..Len(df) |->
                LET r == [df[i] EXCEPT !.v = [k \in DOMAIN df[i].v |->
                                                 IF k \in enrich_date_cols
                                                 THEN to_datetime(df[i].v[k])
                                                 ELSE df[i].v[k]]]
                    has_step == "onboarding_step" \in cols
                    r1 == WithCol(r, "readable_onboarding_step",
                                  IF has_step THEN clean_step_name(r.v["onboarding_step"])
                                  ELSE NaN)
                IN  WithCol(r1, "onboarding_version",
                            IF has_step THEN extract_version(r.v["onboarding_step"])
                            ELSE NaN)]
    /\ cols' = cols \cup {"readable_onboarding_step", "onboarding_version"}
    /\ pc' = "e_stage"
    /\ UNCHANGED <<csv, warned, out, it, stats>>

\* df['journey_stage'] = df.apply(get_journey_stage, axis=1); on a frame
\* without rows apply returns a frame, not a column, and the assignment
\* either raises ValueError or sets an empty column, depending on the pandas
\* build
E_JourneyStage ==
    /\ pc = "e_stage"
    /\ \/ /\ df' = [i \in 1..Len(df) |->
                      WithCol(df[i], "journey_stage", get_journey_stage(df[i], cols))]
          /\ cols' = cols \cup {"journey_stage"}
          /\ pc' = "e_steps"
       \/ /\ df = <<>>
          /\ pc' = "e_ValueError"
          /\ UNCHANGED <<df, cols>>
    /\ UNCHANGED <<csv, warned, out, it, stats>>

\* the nine step columns; df['onboarding_step'] raises KeyError when absent
E_StepFlags ==
    /\ pc = "e_steps"
    /\ IF "onboarding_step" \in cols
       THEN /\ df' = [i \in 1..Len(df) |-> StepFlagsRow(df[i])]
            /\ cols' = cols \cup DOMAIN step_config
            /\ pc' = "e_dedup_mobile"
       ELSE /\ pc' = "e_KeyError"
            /\ UNCHANGED <<df, cols>>
    /\ UNCHANGED <<csv, warned, out, it, stats>>

\* one pass of the duplicate removal, on column c
DedupPass(frame, present, c) ==
    IF c \in present THEN DropMasked(frame, DuplicateMask(frame, c)) ELSE frame

\* 1. Drop Mobile Duplicates
E_DropMobileDuplicates ==
    /\ pc = "e_dedup_mobile"
    /\ df' = DedupPass(df, cols, "mobile")
    /\ stats' = [stats EXCEPT !.initial_count = Len(df),
                              !.dupes_mobile = Len(df) - Len(df')]
    /\ pc' = "e_dedup_email"
    /\ UNCHANGED <<csv, cols, warned, out, it>>

\* 2. Drop Email Duplicates
E_DropEmailDuplicates ==
    /\ pc = "e_dedup_email"
    /\ df' = DedupPass(df, cols, "email")
    /\ stats' = [stats EXCEPT !.dupes_email = Len(df) - Len(df'),
                              !.rows_removed = stats.initial_count - Len(df')]
    /\ pc' = "e_export"
    /\ UNCHANGED <<csv, cols, warned, out, it>>

E_Export ==
    /\ pc = "e_export"
    /\ out' = [exists |-> TRUE, cols |-> cols, rows |-> [i \in 1..Len(df) |-> df[i].v]]
    /\ pc' = "e_done"
    /\ UNCHANGED <<csv, cols, df, warned, it, stats>>

EnrichNext ==
    \/ E_Load \/ E_EnsureColumns \/ E_MigrateRow \/ E_AddFlags \/ E_ParseJourney
    \/ E_JourneyStage \/ E_StepFlags \/ E_DropMobileDuplicates
    \/ E_DropEmailDuplicates \/ E_Export

-----------------------------------------------------------------------------
(* enrich_leads.py: the input files of the model *)

MaxRecords == 1  \* rows of an input file whose URL or journey cells vary freely
MaxRows == 4     \* rows of an input file whose mobile and email cells vary freely

EnrichCols ==
    { website_col, map_col, social_col, ecommerce_col, "converted_date",
      "kyb_submitted_date", "kyb_in_progress_date", "created_date",
      "onboarding_step", "mobile", "email" }

EnrichBase ==
    (website_col :> Str(<<"https://", "shop.example">>)) @@
    (map_col :> NaN) @@ (social_col :> NaN) @@ (ecommerce_col :> NaN) @@
    ("converted_date" :> NaN) @@ ("kyb_submitted_date" :> NaN) @@
    ("kyb_in_progress_date" :> NaN) @@ ("created_date" :> Str(<<"2024-05-31">>)) @@
    ("onboarding_step" :> Str(v2_business_details_step)) @@
    ("mobile" :> Str(<<"966500000000">>)) @@
    ("email" :> Str(<<"info", "@", "shop.example">>))

EnrichRow(present, over) ==
    [c \in present |-> IF c \in DOMAIN over THEN over[c] ELSE EnrichBase[c]]

\* read_csv turns an empty cell and the texts 'nan', 'NaN' into NaN; blank
\* text and 'NAN' stay texts
MapsSite == Str(<<"https://", "maps.google", ".com/?q=1">>)
SocialSite == Str(<<"https://", "www.", "facebook.com", "/mystore">>)
EcomSite == Str(<<"https://", "shop.", "salla.sa">>)
SocialEcomSite == Str(<<"https://", "instagram.com", "/", "shop.", "salla.sa">>)
MapsInputs ==
    { MapsSite, Str(<<"https://", "MAPS.GOOGLE", ".com">>),
      Str(<<" ", "Goo.gl/Maps", "/abc">>),
      Str(<<"https://", "maps.google", "/", "instagram.com">>),
      Str(<<"https://", "google.com/maps", "/", "SALLA.SA">>) }
OtherInputs ==
    { NaN, Str(<<" ">>), Str(<<"https://", "shop.example">>),
      SocialSite, EcomSite, SocialEcomSite }
MapInputs == { NaN, Str(<<" ">>), Str(<<"NAN">>), Str(<<"ChIJ123">>) }
SocialInputs == { NaN, Str(<<"https://", "x.com", "/shop">>) }
EcomInputs == { NaN, Str(<<"https://", "old.", "salla.sa">>) }

UrlRow(w, m, so, ec) ==
    EnrichRow(EnrichCols, (website_col :> w) @@ (map_col :> m) @@
                          (social_col :> so) @@ (ecommerce_col :> ec))
UrlRows ==
    { UrlRow(w, m, so, ec) :
        w \in MapsInputs, m \in MapInputs, so \in SocialInputs, ec \in EcomInputs }
    \cup { UrlRow(w, m, so, ec) :
        w \in OtherInputs, m \in {NaN, Str(<<"ChIJ123">>)},
        so \in SocialInputs, ec \in EcomInputs }

ValidDate == Str(<<"2024-07-15">>)
JunkDate == Str(<<"not a date">>)
JourneySteps ==
    { NaN, Str(v2_business_details_step), Str(v3_final_step), Str(<<"_", "step">>) }
JourneyRows ==
    { EnrichRow(EnrichCols, ("converted_date" :> cv) @@ ("kyb_submitted_date" :> ks) @@
                            ("kyb_in_progress_date" :> kp) @@ ("created_date" :> cr) @@
                            ("onboarding_step" :> st)) :
        cv \in {NaN, ValidDate, JunkDate}, ks \in {NaN, ValidDate},
        kp \in {NaN, ValidDate}, cr \in {NaN, ValidDate}, st \in JourneySteps }

StepLiterals == UNION {step_config[k] : k \in DOMAIN step_config}
StepInputs ==
    { NaN, Str(<<"info">>), Str(<<"V2", "_", "FINAL", "_", "STEP">>),
      Str(<<" ", "kyc", "_", "step", " ">>), Str(<<"KYC", "_", "step">>),
      Str(<<"v3", "_", "business", "_", "details", "_", "step">>),
      Str(<<"final", "_", "step">>) }
    \cup { Str(lit) : lit \in StepLiterals }
StepRows == { EnrichRow(EnrichCols, ("onboarding_step" :> st)) : st \in StepInputs }

Mobile1 == Str(<<"966500000000">>)
Mobile2 == Str(<<"966511111111">>)
Email1 == Str(<<"a", "@", "shop.example">>)
Email2 == Str(<<"b", "@", "shop.example">>)
DedupRows ==
    { EnrichRow(EnrichCols, ("mobile" :> p[1]) @@ ("email" :> p[2])) :
        p \in { <<NaN, NaN>>, <<NaN, Email1>>, <<Mobile1, NaN>>, <<Mobile1, Email1>>,
                <<Mobile1, Email2>>, <<Mobile2, Email1>> } }

File(present, rows) == [exists |-> TRUE, cols |-> present, rows |-> rows]

EnrichInput ==
    \/ csv = NoFile
    \/ \E k \in 1..MaxRecords : \E rs \in [1..k -> UrlRows] : csv = File(EnrichCols, rs)
    \/ \E k \in 1..MaxRecords : \E rs \in [1..k -> JourneyRows] : csv = File(EnrichCols, rs)
    \/ \E k \in 1..MaxRecords : \E rs \in [1..k -> StepRows] : csv = File(EnrichCols, rs)
    \/ \E k \in 1..MaxRows : \E rs \in [1..k -> DedupRows] : csv = File(EnrichCols, rs)
    \* some of the working, journey or identity columns are absent
    \/ \E absent \in SUBSET {website_col, map_col, social_col, ecommerce_col} :
          \E w \in {MapsSite, Str(<<"Instagram.com", "/shop">>), SocialEcomSite} :
             csv = File(EnrichCols \ absent,
                        <<EnrichRow(EnrichCols \ absent, (website_col :> w))>>)
    \/ \E absent \in SUBSET {"converted_date", "kyb_submitted_date",
                               "kyb_in_progress_date", "created_date", "onboarding_step"} :
          \E st \in {NaN, Str(v3_final_step)} :
             csv = File(EnrichCols \ absent,
                        <<EnrichRow(EnrichCols \ absent,
                                    ("converted_date" :> ValidDate) @@
                                    ("kyb_submitted_date" :> ValidDate) @@
                                    ("kyb_in_progress_date" :> ValidDate) @@
                                    ("onboarding_step" :> st))>>)
    \/ \E absent \in SUBSET {"mobile", "email"} :
          csv = File(EnrichCols \ absent,
                     [i \in 1..2 |-> EnrichRow(EnrichCols \ absent, <<>>)])

EnrichInit ==
    /\ EnrichInput
    /\ pc = "e_load"
    /\ cols = {}
    /\ df = <<>>
    /\ warned = <<>>
    /\ out = NoFile
    /\ it = 0
    /\ stats = NoStats

SpecEnrich == EnrichInit /\ [][EnrichNext]_vars

-----------------------------------------------------------------------------
(* pipeline.py, then enrich_leads.py on the file pipeline.py exported *)

\* the text to_csv writes for a timestamp
DateText(n) == CHOOSE k \in DOMAIN DateTable : DateTable[k] = n

\* df.to_csv: the text of a cell; NaN is written as the empty field
to_csv_text(c) ==
    CASE c.t = "nan" -> <<>>
      [] c.t = "ts" -> <<DateText(c.n)>>
      [] OTHER -> PyStr(c)

\* the texts read_csv takes for a missing value
na_values ==
    { <<>>, <<"nan">>, <<"NaN">>, <<"NA">>, <<"N/A">>, <<"n/a">>, <<"null">>,
      <<"NULL">>, <<"<NA>">>, <<"#N/A">> }

\* a text of digits only (no other number text is exported by the model)
IsDigits(k) ==
    k \in {"0", "1", "2", "7", "0000", "5011", "5022", "9665", "966500000000",
            "966511111111"}
IsNumberText(s) == s # <<>> /\ \A i \in 1..Len(s) : IsDigits(s[i])
RECURSIVE StripZeros(_)
StripZeros(s) ==
    IF Len(s) > 1 /\ Head(s) \in {"0", "0000"} THEN StripZeros(Tail(s))
    ELSE IF Head(s) \in {"0", "0000"} THEN <<"0">> ELSE s

\* pd.read_csv on one column of texts: a missing-value text is NaN; when
\* every other text of the column is a number the column is numeric (float64
\* if a value is missing), else the texts are kept
read_csv_cell(texts, i) ==
    LET numeric == \A j \in 1..Len(texts) :
                       texts[j] \in na_values \/ IsNumberText(texts[j])
        missing == \E j \in 1..Len(texts) : texts[j] \in na_values
    IN  IF texts[i] \in na_values THEN NaN
        ELSE IF numeric THEN Num(StripZeros(texts[i]), missing)
        ELSE Str(texts[i])

\* the frame read_csv returns for the rows to_csv wrote
ReadBack(rows) ==
    [i \in 1..Len(rows) |->
        [idx |-> i - 1,
         v |-> [c \in DOMAIN rows[i] |->
                   read_csv_cell([j \in 1..Len(rows) |-> to_csv_text(rows[j][c])], i)]]]

\* enrich_leads.py main() loads the file pipeline.py main() exported; the
\* variable out stands for that file until E_Export writes the enriched one
E_LoadCleaned ==
    /\ pc = "p_done"
    /\ out.exists
    /\ pc' = "e_ensure"
    /\ cols' = Range(out.cols)
    /\ df' = ReadBack(out.rows)
    /\ it' = 0
    /\ stats' = NoStats
    /\ UNCHANGED <<csv, warned, out>>

JointNext ==
    \/ PipelineNext
    \/ E_LoadCleaned \/ E_EnsureColumns \/ E_MigrateRow \/ E_AddFlags \/ E_ParseJourney
    \/ E_JourneyStage \/ E_StepFlags \/ E_DropMobileDuplicates
    \/ E_DropEmailDuplicates \/ E_Export

MaxJoint == 3    \* rows of a raw file that goes through both scripts

\* the Lead ID of the i-th row of a raw file: no two rows share one
LeadIds == <<"L-1", "L-2", "L-3", "L-4", "L-5">>

\* creation date and raw blacklist code: safe before the cutoff whatever the
\* code, unsafe after it with code 0
JointStatusInputs ==
    { <<Str(<<"2024-05-31">>), Str(<<"0">>)>>, <<Str(<<"2024-07-15">>), Str(<<"0">>)>> }

\* mobile and email as the raw file has them; every mobile text holds a
\* character that is no digit, so read_csv keeps the raw column as text
JointIdentityInputs ==
    { <<Str(<<"+", "5011">>), Str(<<"Info", "@", "shop.example">>)>>,
      <<Str(<<"0", "-", "5011">>), Str(<<"b", "@", "shop.example">>)>>,
      <<NaN, Str(<<" ", "info", "@", "shop.example">>)>>,
      <<Str(<<"unknown">>), NaN>> }

JointSource == ModelledSource \cup {"Lead ID"}
JointRow(i, st, id) ==
    SourceRow(JointSource,
              ("Lead ID" :> Str(<<LeadIds[i]>>)) @@ ("Created Date" :> st[1]) @@
              ("Internal Blacklisting Passed" :> st[2]) @@
              ("Mobile" :> id[1]) @@ ("Email" :> id[2]))

JointInput ==
    \E k \in 1..MaxJoint :
       \E sts \in [1..k -> JointStatusInputs] : \E ids \in [1..k -> JointIdentityInputs] :
          csv = File(JointSource, [i \in 1..k |-> JointRow(i, sts[i], ids[i])])

JointInit ==
    /\ JointInput
    /\ pc = "p_load"
    /\ cols = {}
    /\ df = <<>>
    /\ warned = <<>>
    /\ out = NoFile
    /\ it = 0
    /\ stats = NoStats

SpecJoint == JointInit /\ [][JointNext]_vars

-----------------------------------------------------------------------------
(* Blacklist evaluation and column selection: properties *)

\* apply_blacklist_logic has returned and the row filter has not yet run
BlacklistApplied == pc \in {"p_identity", "p_contact", "p_tiers", "p_filter"}
RowsFiltered == pc \in {"p_select", "p_export", "p_done"}

\* the created date of input record i, as pd.to_datetime coerces it
InputCreated(i) == to_datetime(csv.rows[i]["Created Date"])

\* C1: a record whose creation date is null (missing, or unparsable and
\* coerced to null) gets blacklist_status = 1 whatever its raw check code,
\* and so survives the blacklist row filter.
C1_NullCreatedDateIsSafe ==
    /\ BlacklistApplied =>
         \A i \in 1..Len(df) :
            isna(df[i].v["created_date"]) => df[i].v["blacklist_status"] = IntC(1)
    /\ RowsFiltered =>
         \A i \in 1..Len(csv.rows) :
            isna(InputCreated(i)) => \E j \in 1..Len(df) : df[j].idx = i - 1

\* the raw check code reads as PASSED: it contains 'green.png' or is '1'
RawPassed(raw) ==
    notna(raw) /\ (Contains(PyStr(raw), "green.png") \/ PyStr(raw) = <<"1">>)

\* C2: with a non-null creation date, blacklist_status is 1 iff the date is
\* strictly before 2024-06-01 or the raw code reads as PASSED, and 0
\* otherwise; a date equal to the cutoff counts as post-cutoff.
C2_BlacklistStatusRule ==
    BlacklistApplied =>
      \A i \in 1..Len(df) :
        LET created == InputCreated(df[i].idx + 1)
            raw == csv.rows[df[i].idx + 1]["Internal Blacklisting Passed"]
            status == df[i].v["blacklist_status"]
        IN  notna(created) =>
              /\ status \in {IntC(0), IntC(1)}
              /\ status = IntC(1) <=> (created.n < Day(152) \/ RawPassed(raw))
              /\ (created.n = Day(152) /\ ~RawPassed(raw)) => status = IntC(0)

\* a record created exactly on the cutoff with raw code '0' got status 0
C2_Witness ==
    /\ BlacklistApplied
    /\ \E i \in 1..Len(df) :
         /\ csv.rows[df[i].idx + 1]["Created Date"] = Str(<<"2024-06-01">>)
         /\ csv.rows[df[i].idx + 1]["Internal Blacklisting Passed"] = Str(<<"0">>)
         /\ df[i].v["blacklist_status"] = IntC(0)

\* the selected columns the input file does not provide
AbsentSelected == {c \in Range(SELECTED_COLUMNS) : c \notin {RenameCol(k) : k \in csv.cols}}

\* C9: a missing expected column is never fatal: whatever mapped source
\* columns the input lacks, the run reaches the export, with each absent
\* selected column created, filled with empty values and reported.
C9_MissingColumnNeverFatal ==
    /\ pc # "p_KeyError"
    /\ pc = "p_done" =>
         /\ Range(warned) = AbsentSelected
         /\ \A c \in AbsentSelected : \A i \in 1..Len(out.rows) : out.rows[i][c] = NaN

-----------------------------------------------------------------------------
(* Digital-presence migration: properties *)

\* the cell of column c that row r had in the input file (NaN when the file
\* lacks the column)
InCell(r, c) == IF c \in csv.cols THEN csv.rows[r.idx + 1][c] ELSE NaN

\* the iterrows() loop has processed every row; no row was removed yet
MigrationDone ==
    \/ pc = "e_migrate" /\ it = Len(df)
    \/ pc \in {"e_dates", "e_stage", "e_steps", "e_dedup_mobile"}

\* C3: after the migration loop has processed all records, no website cell
\* holds a value that is_google_maps_url, is_social_media_url or
\* is_ecommerce_url accepts, whatever the other three fields held.
C3_WebsiteHoldsNoClassifiedUrl ==
    MigrationDone =>
      \A i \in 1..Len(df) :
        LET site == df[i].v[website_col]
        IN  ~is_google_maps_url(site) /\ ~is_social_media_url(site) /\ ~is_ecommerce_url(site)

\* an e-commerce link that met a filled e-commerce field was cleared
C3_Witness ==
    /\ MigrationDone
    /\ \E i \in 1..Len(df) :
         /\ InCell(df[i], website_col) = EcomSite
         /\ notna(InCell(df[i], ecommerce_col))
         /\ df[i].v[website_col] = NaN

\* C4: for a record whose website is not a maps URL, at most one of the
\* social and the e-commerce step fires: the website URL is written into at
\* most one of social_media_links and the e-commerce link field.
C4_AtMostOneTargetWritten ==
    MigrationDone =>
      \A i \in 1..Len(df) :
        ~is_google_maps_url(InCell(df[i], website_col)) =>
          ~ /\ df[i].v[social_col] # InCell(df[i], social_col)
            /\ df[i].v[ecommerce_col] # InCell(df[i], ecommerce_col)

\* the website text holds a maps indicator, in any case
HoldsMapsIndicator(w) ==
    notna(w) /\ \E ind \in maps_indicators : Contains(Lower(PyStr(w)), ind)
\* null, blank, or the text 'nan'
NullBlankOrNan(m) ==
    isna(m) \/ Strip(PyStr(m)) = <<>> \/ Lower(PyStr(m)) = <<"nan">>

\* C5: maps takes total precedence: for a website holding a maps indicator
\* (any case), also beside a social or e-commerce domain, the migration
\* leaves social_media_links and the e-commerce field unchanged, clears
\* website, and writes the URL to google_map_id only if that was empty.
C5_MapsTakesPrecedence ==
    MigrationDone =>
      \A i \in 1..Len(df) :
        LET w == InCell(df[i], website_col)
            m == InCell(df[i], map_col)
        IN  HoldsMapsIndicator(w) =>
              /\ df[i].v[social_col] = InCell(df[i], social_col)
              /\ df[i].v[ecommerce_col] = InCell(df[i], ecommerce_col)
              /\ df[i].v[website_col] = NaN
              /\ df[i].v[map_col] = IF NullBlankOrNan(m) THEN w ELSE m

\* a maps link that also names a social domain met a filled google_map_id
C5_Witness ==
    /\ MigrationDone
    /\ \E i \in 1..Len(df) :
         /\ InCell(df[i], website_col) = Str(<<"https://", "maps.google", "/", "instagram.com">>)
         /\ InCell(df[i], map_col) = Str(<<"ChIJ123">>)
         /\ notna(InCell(df[i], social_col))
         /\ df[i].v[website_col] = NaN
         /\ df[i].v[map_col] = Str(<<"ChIJ123">>)

-----------------------------------------------------------------------------
(* Journey stage and step flags: properties *)

StageSet == pc \in {"e_steps", "e_dedup_mobile"}

\* the timestamp column c of row r is present: the file has the column and
\* the cell parses to a date
Stamp(r, c) == c \in csv.cols /\ notna(to_datetime(InCell(r, c)))

\* C6: get_journey_stage returns the label of the first matching rule in the
\* order Converted > KYB Submitted > KYB In Progress > onboarding step
\* ('Onboarding Completed' if the cleaned name contains 'Final', else
\* 'Onboarding: <name>') > Registered > Unknown.
C6_JourneyStagePriority ==
    StageSet =>
      \A i \in 1..Len(df) :
        LET r == df[i]
            stage == r.v["journey_stage"]
            name == r.v["readable_onboarding_step"]
            conv == Stamp(r, "converted_date")
            subm == Stamp(r, "kyb_submitted_date")
            prog == Stamp(r, "kyb_in_progress_date")
            crea == Stamp(r, "created_date")
            early == ~conv /\ ~subm /\ ~prog
        IN  /\ conv => stage = Str(<<"Converted">>)
            /\ (~conv /\ subm) => stage = Str(<<"KYB Submitted">>)
            /\ (~conv /\ ~subm /\ prog) => stage = Str(<<"KYB In Progress">>)
            /\ (early /\ notna(name) /\ Contains(name.s, "Final"))
                  => stage = Str(<<"Onboarding Completed">>)
            /\ (early /\ notna(name) /\ ~Contains(name.s, "Final"))
                  => stage = Str(<<"Onboarding: ">> \o name.s)
            /\ (early /\ isna(name) /\ crea) => stage = Str(<<"Registered">>)
            /\ (early /\ isna(name) /\ ~crea) => stage = Str(<<"Unknown">>)
            /\ (early /\ notna(name)) => stage # Str(<<"Registered">>)

\* a record with a converted and a kyb-submitted timestamp is 'Converted'
C6_Witness ==
    /\ StageSet
    /\ \E i \in 1..Len(df) :
         /\ Stamp(df[i], "converted_date")
         /\ Stamp(df[i], "kyb_submitted_date")
         /\ df[i].v["journey_stage"] = Str(<<"Converted">>)

StepFlagsSet == pc = "e_dedup_mobile"
FlagsOn(r) == {k \in DOMAIN step_config : r.v[k] = IntC(1)}

\* C10: the nine step flags are one-hot on the raw step code: a flag is 1
\* iff the whitespace-trimmed, case-preserved code equals one of the flag's
\* literals; at most one flag is 1, exactly one for a configured literal,
\* none for a null or unrecognised code.
C10_StepFlagsOneHot ==
    StepFlagsSet =>
      \A i \in 1..Len(df) :
        LET r == df[i]
            raw == InCell(r, "onboarding_step")
            code == Strip(PyStr(raw))
        IN  /\ \A k \in DOMAIN step_config :
                 /\ r.v[k] \in {IntC(0), IntC(1)}
                 /\ r.v[k] = IntC(1) <=> (notna(raw) /\ code \in step_config[k])
            /\ Cardinality(FlagsOn(r)) <= 1
            /\ (notna(raw) /\ code \in StepLiterals) => Cardinality(FlagsOn(r)) = 1
            /\ (isna(raw) \/ code \notin StepLiterals) => FlagsOn(r) = {}
            /\ (notna(raw) /\ code \in {v2_final_step, v3_final_step})
                  => FlagsOn(r) = {"final_step"}

\* v2_business_details_step sets only its own flag
C10_Witness ==
    /\ StepFlagsSet
    /\ \E i \in 1..Len(df) :
         /\ InCell(df[i], "onboarding_step") = Str(v2_business_details_step)
         /\ FlagsOn(df[i]) = {"v2_business_details_step"}

-----------------------------------------------------------------------------
(* Deduplication: properties *)

Deduplicated == pc \in {"e_export", "e_done"}

\* C7: deduplication (the mobile pass, then the email pass) is idempotent:
\* run again on its own result it removes no record.
C7_DedupIdempotent ==
    Deduplicated => DedupPass(DedupPass(df, cols, "mobile"), cols, "email") = df

\* a run in which both passes removed a record
C7_Witness ==
    /\ pc = "e_done"
    /\ stats.dupes_mobile > 0
    /\ stats.dupes_email > 0

\* the position in frame of the row with index label x
Pos(frame, x) == CHOOSE i \in 1..Len(frame) : frame[i].idx = x

\* the result after is the frame before with, for every non-null value of
\* column c, all but the first row carrying it removed; rows with a null
\* cell all stay; the kept rows are unchanged and in their order
FirstOccurrencesKept(before, after, c) ==
    LET keep == {i \in 1..Len(before) :
                    \/ isna(before[i].v[c])
                    \/ \A j \in 1..(i - 1) : before[j].v[c] # before[i].v[c]}
    IN  /\ {after[a].idx : a \in 1..Len(after)} = {before[i].idx : i \in keep}
        /\ Len(after) = Cardinality(keep)
        /\ \A a \in 1..Len(after) : after[a] = before[Pos(before, after[a].idx)]
        /\ \A a, b \in 1..Len(after) :
              a < b => Pos(before, after[a].idx) < Pos(before, after[b].idx)

\* C8: each deduplication pass (mobile, then email) keeps, for every
\* non-null value of its field, exactly the first record in current order
\* and removes the later ones, retains every record whose value is null,
\* and leaves the order of the kept records unchanged.
C8_PassKeepsFirstOccurrence ==
    [][ /\ (pc = "e_dedup_mobile" /\ "mobile" \in cols)
            => FirstOccurrencesKept(df, df', "mobile")
        /\ (pc = "e_dedup_email" /\ "email" \in cols)
            => FirstOccurrencesKept(df, df', "email") ]_vars

\* the mobile pass removed a later duplicate and kept two rows without mobile
C8_Witness ==
    /\ pc = "e_dedup_email"
    /\ stats.dupes_mobile > 0
    /\ Cardinality({i \in 1..Len(df) : isna(df[i].v["mobile"])}) >= 2

\* the index labels of the rows of a frame
Labels(frame) == {frame[a].idx : a \in 1..Len(frame)}

\* row values u and w carry the same non-null cell in column c
SameNonNull(u, w, c) == c \in csv.cols /\ notna(u[c]) /\ u[c] = w[c]

\* the input records that the two passes removed, and of those the ones
\* whose mobile and email no record of the result carries
RemovedRecords == {i \in 1..Len(csv.rows) : (i - 1) \notin Labels(df)}
Unwitnessed ==
    {i \in RemovedRecords :
        ~\E j \in 1..Len(df) :
            \/ SameNonNull(csv.rows[i], df[j].v, "mobile")
            \/ SameNonNull(csv.rows[i], df[j].v, "email")}

\* C11 (as stated): every record removed by the two-pass deduplication has
\* a witness in the final output: a record that survives both passes and
\* carries the same non-null mobile or the same non-null email.
C11_RemovedHasFinalWitness == Deduplicated => Unwitnessed = {}

\* every row that a pass on column c removes has a non-null cell in c that
\* a row kept by that pass carries
RemovedHaveWitness(before, after, c) ==
    \A i \in 1..Len(before) :
        before[i].idx \notin Labels(after) =>
            /\ notna(before[i].v[c])
            /\ \E j \in 1..Len(after) : after[j].v[c] = before[i].v[c]

\* C11 (amended): every record that a deduplication pass removes has a
\* witness among the records that pass keeps, carrying the same non-null
\* value of the pass's field; the witness of a record removed by the email
\* pass is in the final output, the witness of a record removed by the
\* mobile pass may itself be removed by the email pass.
C11_RemovedHasWitnessInPass ==
    [][ /\ (pc = "e_dedup_mobile" /\ "mobile" \in cols)
            => RemovedHaveWitness(df, df', "mobile")
        /\ (pc = "e_dedup_email" /\ "email" \in cols)
            => RemovedHaveWitness(df, df', "email") ]_vars

\* a run that removed a record whose mobile and email are both missing from
\* the final output
C11_Witness == pc = "e_done" /\ Unwitnessed # {}

-----------------------------------------------------------------------------
(* Blacklist filter before deduplication: properties *)

\* the blacklist status of the i-th record of the raw file
RawStatus(i) ==
    blacklist_status(to_datetime(csv.rows[i]["Created Date"]),
                     parse_raw_blacklist(csv.rows[i]["Internal Blacklisting Passed"]))

\* the identity fields of the i-th raw record as pipeline.py exports them
Exported(i) ==
    LET r == process_digital_contact_row(
                 [idx |-> i - 1,
                  v |-> ("email" :> csv.rows[i]["Email"]) @@
                        ("mobile" :> csv.rows[i]["Mobile"])])
    IN  ("lead_id" :> csv.rows[i]["Lead ID"]) @@ ("mobile" :> r.v["mobile"]) @@
        ("email" :> r.v["email"])

\* the records of the raw file with blacklist_status = 1, in their original
\* order, and the result of deduplicating only them
SafeRecords ==
    LET safe == SelectSeq([i \in 1..Len(csv.rows) |-> i],
                          LAMBDA i : RawStatus(i) = IntC(1))
    IN  ReadBack([k \in 1..Len(safe) |-> Exported(safe[k])])
SafeDeduplicated ==
    DedupPass(DedupPass(SafeRecords, {"mobile", "email"}, "mobile"),
              {"mobile", "email"}, "email")

LeadsOf(frame) == [i \in 1..Len(frame) |-> frame[i].v["lead_id"]]

\* C12: a record dropped by the blacklist filter never causes a retained
\* record to be removed as its duplicate: when both scripts have run, the
\* final output holds exactly the records that deduplicating only the
\* blacklist_status = 1 records of the raw file keeps, in their original
\* order, and every output record has blacklist_status = 1.
C12_FilterBeforeDedup ==
    pc = "e_done" =>
        /\ LeadsOf(df) = LeadsOf(SafeDeduplicated)
        /\ \A i \in 1..Len(df) : \A j \in 1..Len(csv.rows) :
               csv.rows[j]["Lead ID"] = df[i].v["lead_id"] => RawStatus(j) = IntC(1)

\* both scripts ran on a file where a dropped record precedes a retained
\* record with the same mobile, and the retained record is in the output
C12_Witness ==
    /\ pc = "e_done"
    /\ \E i, j \in 1..Len(csv.rows) :
          /\ i < j
          /\ RawStatus(i) = IntC(0)
          /\ RawStatus(j) = IntC(1)
          /\ notna(Exported(i)["mobile"])
          /\ Exported(i)["mobile"] = Exported(j)["mobile"]
          /\ \E k \in 1..Len(df) : df[k].v["lead_id"] = csv.rows[j]["Lead ID"]

=============================================================================
